---- MODULE Spec2Model ----
(***************************************************************************)
(* A model of the caster ray-casting kernel (src/src/lib.rs).              *)
(*                                                                         *)
(* Every number of the program is an f32.  The model keeps the structure   *)
(* of IEEE-754 binary floating point but scales the format down: a value   *)
(* is a class (num, inf, nan), a sign bit and a magnitude counted in units *)
(* of 1/Scale; the representable magnitudes are m * 2^e with               *)
(* m < 2^MantBits and 0 <= e <= MaxExp, every operation is the exact       *)
(* result rounded to the nearest representable magnitude (ties to even),   *)
(* a result above MaxFinite is an infinity, 0/0, inf-inf, 0*inf and        *)
(* inf/inf are NaN.  A NaN produced by an operation carries the sign bit   *)
(* the platform gives its default NaN (set on x86-64, clear on aarch64):   *)
(* nanSign is that bit, chosen once per run.                               *)
(***************************************************************************)
EXTENDS Integers, Sequences, FiniteSets, TLC

VARIABLES
    nanSign,     \* sign bit of the platform's default NaN
    args,        \* the arguments of the call of rays
    pc,          \* where the call is: rays_loop, lines_loop, circles_loop, circle, done
    i,           \* rays: the loop index
    angle,       \* rays: the angle of the ray being evaluated
    fan,         \* rays: the vector of rays pushed so far
    li,          \* intersection_lines: index of the next segment
    lclosest,    \* intersection_lines: closest
    ci,          \* intersection_circles: index of the next circle
    cclosest,    \* intersection_circles: closest
    mx, my,      \* intersection_circle: ray_begin_x, ray_begin_y of the invocation
    mlen,        \* intersection_circle: len of the invocation
    calls,       \* intersection_circle: invocations made for the current circle
    lineCall,    \* the last call of intersection_line: its values and its result
    circleCall,  \* the last returning invocation of intersection_circle
    sel,         \* the last call of choose_closest: first, second, result
    ret          \* what rays returned

vars == <<nanSign, args, pc, i, angle, fan, li, lclosest, ci, cclosest,
          mx, my, mlen, calls, lineCall, circleCall, sel, ret>>

(***************************************************************************)
(* Bounds of the model.                                                    *)
(***************************************************************************)
MantBits == 4
MaxExp == 4
Scale == 4
MaxCalls == 40
MaxRays == 3

(***************************************************************************)
(* The number format.                                                      *)
(***************************************************************************)
MantLimit == 2^MantBits
MaxFinite == (MantLimit - 1) * 2^MaxExp

Num(s, m) == [c |-> "num", s |-> s, m |-> m]
Inf(s) == [c |-> "inf", s |-> s, m |-> 0]
NaN == [c |-> "nan", s |-> nanSign, m |-> 0]
Zero == Num(0, 0)

IsNaN(a) == a.c = "nan"
IsInf(a) == a.c = "inf"
IsNum(a) == a.c = "num"
IsZero(a) == a.c = "num" /\ a.m = 0
Xor(s, t) == IF s = t THEN 0 ELSE 1

\* the power of two that is the spacing of the format at the rational n/d
Quantum(n, d) ==
    LET k == CHOOSE e \in 0..MaxExp :
                 /\ n < d * MantLimit * 2^e
                 /\ (e = 0 \/ n >= d * MantLimit * 2^(e - 1))
    IN  2^k

\* the rational n/d (n >= 0, d > 0) rounded to nearest, ties to even;
\* MaxFinite + 1 stands for a magnitude beyond the format
RoundMag(n, d) ==
    IF n >= d * MantLimit * 2^MaxExp THEN MaxFinite + 1
    ELSE LET q == Quantum(n, d)
             fl == n \div (d * q)
             rem == n % (d * q)
             up == 2 * rem > d * q \/ (2 * rem = d * q /\ fl % 2 = 1)
         IN  q * (IF up THEN fl + 1 ELSE fl)

Round(s, n, d) ==
    LET r == RoundMag(n, d)
    IN  IF r > MaxFinite THEN Inf(s) ELSE Num(s, r)

\* the signed value of a finite number, in units
Val(a) == IF a.s = 1 THEN 0 - a.m ELSE a.m

\* the order of the non-NaN numbers: -0 and +0 are equal
Ord(a) == IF IsInf(a) THEN (IF a.s = 1 THEN 0 - (MaxFinite + 1) ELSE MaxFinite + 1)
          ELSE Val(a)

FNeg(a) == IF IsNaN(a) THEN a ELSE [a EXCEPT !.s = 1 - a.s]

FAdd(a, b) ==
    IF IsNaN(a) \/ IsNaN(b) THEN NaN
    ELSE IF IsInf(a) /\ IsInf(b) THEN (IF a.s = b.s THEN a ELSE NaN)
    ELSE IF IsInf(a) THEN a
    ELSE IF IsInf(b) THEN b
    ELSE LET v == Val(a) + Val(b)
         IN  IF v = 0 THEN Num(IF a.s = 1 /\ b.s = 1 THEN 1 ELSE 0, 0)
             ELSE IF v < 0 THEN Round(1, 0 - v, 1)
             ELSE Round(0, v, 1)

FSub(a, b) == FAdd(a, FNeg(b))

FMul(a, b) ==
    IF IsNaN(a) \/ IsNaN(b) THEN NaN
    ELSE IF (IsInf(a) /\ IsZero(b)) \/ (IsZero(a) /\ IsInf(b)) THEN NaN
    ELSE IF IsInf(a) \/ IsInf(b) THEN Inf(Xor(a.s, b.s))
    ELSE Round(Xor(a.s, b.s), a.m * b.m, Scale)

FDiv(a, b) ==
    IF IsNaN(a) \/ IsNaN(b) THEN NaN
    ELSE IF IsInf(a) /\ IsInf(b) THEN NaN
    ELSE IF IsInf(a) THEN Inf(Xor(a.s, b.s))
    ELSE IF IsInf(b) THEN Num(Xor(a.s, b.s), 0)
    ELSE IF IsZero(b) THEN (IF IsZero(a) THEN NaN ELSE Inf(Xor(a.s, b.s)))
    ELSE Round(Xor(a.s, b.s), a.m * Scale, b.m)

SqrtMax == 2^((MantBits + MaxExp) \div 2 + 1) * Scale
ISqrt(n) == CHOOSE f \in 0..SqrtMax : f * f <= n /\ n < (f + 1) * (f + 1)

FSqrt(a) ==
    IF IsNaN(a) THEN NaN
    ELSE IF IsZero(a) THEN a
    ELSE IF a.s = 1 THEN NaN
    ELSE IF IsInf(a) THEN a
    ELSE LET n == a.m * Scale
             f == ISqrt(n)
             q == Quantum(f, 1)
             lo == f \div q
             mid2 == 2 * lo * q + q
             up == 4 * n > mid2 * mid2 \/ (4 * n = mid2 * mid2 /\ lo % 2 = 1)
             r == q * (IF up THEN lo + 1 ELSE lo)
         IN  IF r > MaxFinite THEN Inf(0) ELSE Num(0, r)

\* the comparisons of f32: false as soon as an operand is NaN
FGt(a, b) == ~IsNaN(a) /\ ~IsNaN(b) /\ Ord(a) > Ord(b)
FLt(a, b) == FGt(b, a)
FLe(a, b) == ~IsNaN(a) /\ ~IsNaN(b) /\ Ord(a) <= Ord(b)
FEq(a, b) == ~IsNaN(a) /\ ~IsNaN(b) /\ Ord(a) = Ord(b)

\* f32::min, f32::max: the other operand when one is NaN
FMin(a, b) == IF IsNaN(a) THEN b ELSE IF IsNaN(b) THEN a ELSE IF Ord(b) < Ord(a) THEN b ELSE a
FMax(a, b) == IF IsNaN(a) THEN b ELSE IF IsNaN(b) THEN a ELSE IF Ord(b) > Ord(a) THEN b ELSE a

\* f32::is_sign_negative: the sign bit, also of a zero and of a NaN
IsSignNegative(a) == a.s = 1

\* a decimal literal or argument: n/d as the format holds it
Lit(n, d) == IF n < 0 THEN Round(1, (0 - n) * Scale, d) ELSE Round(0, n * Scale, d)
\* usize as f32
FromInt(n) == Lit(n, 1)

(***************************************************************************)
(* cos and sin.  The model resolves an angle to the nearest eighth of a    *)
(* turn; the result is the cosine or sine of that direction as the format  *)
(* holds it.  At a quarter turn the small component is an exact zero: the  *)
(* f32 value there (4.4e-8 for cos(pi/2)) is below half the spacing of the *)
(* format at the magnitudes the model uses, as it is in f32 for a ray      *)
(* whose origin is far from the axis.                                      *)
(***************************************************************************)
Octant(a) == ((Val(a) * 2000 + 785 * Scale) \div (1570 * Scale)) % 8

Diag == Lit(7071, 10000)

FCos(a) ==
    IF ~IsNum(a) THEN NaN
    ELSE LET k == Octant(a)
         IN  IF k = 0 THEN Lit(1, 1)
             ELSE IF k = 1 \/ k = 7 THEN Diag
             ELSE IF k = 2 \/ k = 6 THEN Zero
             ELSE IF k = 3 \/ k = 5 THEN FNeg(Diag)
             ELSE Lit(-1, 1)

FSin(a) ==
    IF ~IsNum(a) THEN NaN
    ELSE LET k == Octant(a)
         IN  IF k = 2 THEN Lit(1, 1)
             ELSE IF k = 1 \/ k = 3 THEN Diag
             ELSE IF k = 0 \/ k = 4 THEN Zero
             ELSE IF k = 5 \/ k = 7 THEN FNeg(Diag)
             ELSE Lit(-1, 1)

(***************************************************************************)
(* The values of the program: Option<Intersection> and PyResult.           *)
(***************************************************************************)
None == [some |-> FALSE, x |-> Zero, y |-> Zero, len |-> Zero]
Some(x, y, len) == [some |-> TRUE, x |-> x, y |-> y, len |-> len]
Ok(v) == [ok |-> TRUE, val |-> v]
Err == [ok |-> FALSE, val |-> None]
Ray(x, y, a, intersect) == [x |-> x, y |-> y, angle |-> a, intersection |-> intersect]

(***************************************************************************)
(* The geometry primitives and the Nearest Selector.                       *)
(***************************************************************************)
vectors_cos(x, y, x1, y1, x2, y2, len1, len2) ==
    FDiv(FAdd(FMul(FSub(x, x1), FSub(x, x2)), FMul(FSub(y, y1), FSub(y, y2))),
         FMul(len1, len2))

vector_len(x1, y1, x2, y2) ==
    FSqrt(FAdd(FMul(FSub(x1, x2), FSub(x1, x2)), FMul(FSub(y1, y2), FSub(y1, y2))))

\* choose_closest with the comparison `first.len >= second.len`: on equal
\* len it keeps the second argument
choose_closest_later_on_tie(first, second) ==
    IF first.some
    THEN IF second.some
         THEN IF FLt(first.len, second.len) THEN first ELSE second
         ELSE first
    ELSE second

choose_closest(first, second) ==
    IF first.some
    THEN IF second.some
         THEN IF FGt(first.len, second.len) THEN second ELSE first
         ELSE first
    ELSE second

(***************************************************************************)
(* The Segment Intersector.  intersection_line_eval is one call of         *)
(* intersection_line with the values it computes on the way; each          *)
(* definition below computes the next values of the function body from the *)
(* ones before, and line_return takes the return statement: stage names    *)
(* it.  A value the code does not reach on an early return is recorded as  *)
(* computed from the same expressions.                                     *)
(***************************************************************************)
line_return(ray_begin_x, ray_begin_y, ray_len, line_x1, line_y1, line_x2, line_y2, ray_end_x, ray_end_y, ray_tg, tg_diff, x, y, len, cos, stage) ==
    [ret |-> Ok(IF stage = "hit" THEN Some(x, y, len) ELSE None),
     stage |-> stage,
     begin_x |-> ray_begin_x, begin_y |-> ray_begin_y,
     end_x |-> ray_end_x, end_y |-> ray_end_y,
     ray_x_diff |-> FSub(ray_end_x, ray_begin_x),
     line_x_diff |-> FSub(line_x2, line_x1),
     ray_tg |-> ray_tg, ray_len |-> ray_len,
     x |-> x, y |-> y, len |-> len, cos |-> cos]

line_checks(ray_begin_x, ray_begin_y, ray_len, line_x1, line_y1, line_x2, line_y2, ray_end_x, ray_end_y, ray_tg, tg_diff, x, y, len, cos) ==
    line_return(ray_begin_x, ray_begin_y, ray_len, line_x1, line_y1, line_x2, line_y2,
                ray_end_x, ray_end_y, ray_tg, tg_diff, x, y, len, cos,
                IF FEq(tg_diff, Zero) THEN "parallel"
                ELSE IF \/ FGt(FMin(line_x1, line_x2), x)
                        \/ FGt(x, FMax(line_x1, line_x2))
                        \/ FGt(FMin(line_y1, line_y2), y)
                        \/ FGt(y, FMax(line_y1, line_y2)) THEN "outside"
                ELSE IF FGt(len, ray_len) THEN "far"
                ELSE IF IsSignNegative(cos) THEN "behind"
                ELSE "hit")

line_cos(ray_begin_x, ray_begin_y, ray_len, line_x1, line_y1, line_x2, line_y2, ray_end_x, ray_end_y, ray_tg, tg_diff, x, y, len) ==
    line_checks(ray_begin_x, ray_begin_y, ray_len, line_x1, line_y1, line_x2, line_y2,
                ray_end_x, ray_end_y, ray_tg, tg_diff, x, y, len,
                vectors_cos(ray_begin_x, ray_begin_y, ray_end_x, ray_end_y,
                            x, y, len, ray_len))

line_len(ray_begin_x, ray_begin_y, ray_len, line_x1, line_y1, line_x2, line_y2, ray_end_x, ray_end_y, ray_tg, tg_diff, x, y) ==
    line_cos(ray_begin_x, ray_begin_y, ray_len, line_x1, line_y1, line_x2, line_y2,
             ray_end_x, ray_end_y, ray_tg, tg_diff, x, y,
             vector_len(ray_begin_x, ray_begin_y, x, y))

line_x(ray_begin_x, ray_begin_y, ray_len, line_x1, line_y1, line_x2, line_y2, ray_end_x, ray_end_y, ray_tg, ray_b, tg_diff, y) ==
    line_len(ray_begin_x, ray_begin_y, ray_len, line_x1, line_y1, line_x2, line_y2,
             ray_end_x, ray_end_y, ray_tg, tg_diff,
             FDiv(FSub(y, ray_b), ray_tg), y)

line_y(ray_begin_x, ray_begin_y, ray_len, line_x1, line_y1, line_x2, line_y2, ray_end_x, ray_end_y, ray_tg, ray_b, line_tg, tg_diff, line_b) ==
    line_x(ray_begin_x, ray_begin_y, ray_len, line_x1, line_y1, line_x2, line_y2,
           ray_end_x, ray_end_y, ray_tg, ray_b, tg_diff,
           FDiv(FSub(FMul(ray_b, line_tg), FMul(line_b, ray_tg)), tg_diff))

line_intercepts(ray_begin_x, ray_begin_y, ray_len, line_x1, line_y1, line_x2, line_y2, ray_end_x, ray_end_y, ray_tg, line_tg) ==
    line_y(ray_begin_x, ray_begin_y, ray_len, line_x1, line_y1, line_x2, line_y2,
           ray_end_x, ray_end_y, ray_tg,
           FSub(ray_begin_y, FMul(ray_tg, ray_begin_x)),
           line_tg,
           FSub(line_tg, ray_tg),
           FSub(line_y1, FMul(line_tg, line_x1)))

line_slopes(ray_begin_x, ray_begin_y, ray_len, line_x1, line_y1, line_x2, line_y2, ray_end_x, ray_end_y) ==
    line_intercepts(ray_begin_x, ray_begin_y, ray_len, line_x1, line_y1, line_x2, line_y2,
                    ray_end_x, ray_end_y,
                    FDiv(FSub(ray_end_y, ray_begin_y), FSub(ray_end_x, ray_begin_x)),
                    FDiv(FSub(line_y2, line_y1), FSub(line_x2, line_x1)))

intersection_line_eval(ray_begin_x, ray_begin_y, ray_len, ray_angle, line_x1, line_y1, line_x2, line_y2) ==
    line_slopes(ray_begin_x, ray_begin_y, ray_len, line_x1, line_y1, line_x2, line_y2,
                FAdd(FMul(FCos(ray_angle), ray_len), ray_begin_x),
                FAdd(FMul(FSin(ray_angle), ray_len), ray_begin_y))

intersection_line(ray_begin_x, ray_begin_y, ray_len, ray_angle, line_x1, line_y1, line_x2, line_y2) ==
    intersection_line_eval(ray_begin_x, ray_begin_y, ray_len, ray_angle,
                           line_x1, line_y1, line_x2, line_y2).ret

(***************************************************************************)
(* The Circle Refiner.  intersection_circle is one invocation: it returns, *)
(* or it makes the recursive call whose arguments it gives.                *)
(***************************************************************************)
circle_advance(ray_begin_x, ray_begin_y, ray_len, ray_angle, accuracy, len, len_to_circle) ==
    IF FGt(len, ray_len)
    THEN [kind |-> "return", ret |-> Ok(None),
          x |-> ray_begin_x, y |-> ray_begin_y, len |-> len]
    ELSE IF FLe(len_to_circle, accuracy)
    THEN [kind |-> "return", ret |-> Ok(Some(ray_begin_x, ray_begin_y, len)),
          x |-> ray_begin_x, y |-> ray_begin_y, len |-> len]
    ELSE [kind |-> "call", ret |-> Ok(None),
          x |-> FAdd(FMul(FCos(ray_angle), len_to_circle), ray_begin_x),
          y |-> FAdd(FMul(FSin(ray_angle), len_to_circle), ray_begin_y),
          len |-> FAdd(len, len_to_circle)]

\* intersection_circle measuring the distance to the centre in place of
\* the distance to the surface
circle_distance_to_center(ray_begin_x, ray_begin_y, ray_len, ray_angle, circle_radius, accuracy, len, len_to_center) ==
    circle_advance(ray_begin_x, ray_begin_y, ray_len, ray_angle, accuracy, len,
                   len_to_center)

circle_distance(ray_begin_x, ray_begin_y, ray_len, ray_angle, circle_radius, accuracy, len, len_to_center) ==
    circle_advance(ray_begin_x, ray_begin_y, ray_len, ray_angle, accuracy, len,
                   IF FLt(len_to_center, circle_radius)
                   THEN FSub(circle_radius, len_to_center)
                   ELSE FSub(len_to_center, circle_radius))

intersection_circle(ray_begin_x, ray_begin_y, ray_len, ray_angle, circle_x, circle_y, circle_radius, accuracy, len) ==
    circle_distance(ray_begin_x, ray_begin_y, ray_len, ray_angle, circle_radius, accuracy,
                    len, vector_len(ray_begin_x, ray_begin_y, circle_x, circle_y))

\* the recursion of intersection_circle to its return; NoReturn after more
\* than `fuel` nested invocations
NoReturn == [ok |-> FALSE, val |-> None, noreturn |-> TRUE]

RECURSIVE intersection_circle_run(_, _, _, _, _, _, _, _, _, _)
circle_continue(r, ray_len, ray_angle, circle_x, circle_y, circle_radius, accuracy, fuel) ==
    IF r.kind = "return" THEN r.ret
    ELSE IF fuel = 0 THEN NoReturn
    ELSE intersection_circle_run(r.x, r.y, ray_len, ray_angle,
                                 circle_x, circle_y, circle_radius, accuracy,
                                 r.len, fuel - 1)

intersection_circle_run(ray_begin_x, ray_begin_y, ray_len, ray_angle, circle_x, circle_y, circle_radius, accuracy, len, fuel) ==
    circle_continue(intersection_circle(ray_begin_x, ray_begin_y, ray_len, ray_angle,
                                        circle_x, circle_y, circle_radius, accuracy, len),
                    ray_len, ray_angle, circle_x, circle_y, circle_radius, accuracy, fuel)

(***************************************************************************)
(* The Shape-Set Scanners and the single-ray entry point, as functions of  *)
(* their arguments.  The actions below execute the same loops step by step.*)
(***************************************************************************)
RECURSIVE lines_loop(_, _, _, _, _, _, _)
lines_loop(ray_begin_x, ray_begin_y, ray_len, ray_angle, lines, k, closest) ==
    IF k > Len(lines) THEN Ok(closest)
    ELSE LET intersect_result ==
                 intersection_line(ray_begin_x, ray_begin_y, ray_len, ray_angle,
                                   lines[k][1], lines[k][2], lines[k][3], lines[k][4])
         IN  IF ~intersect_result.ok THEN intersect_result
             ELSE lines_loop(ray_begin_x, ray_begin_y, ray_len, ray_angle, lines, k + 1,
                             choose_closest(closest, intersect_result.val))

intersection_lines(ray_begin_x, ray_begin_y, ray_len, ray_angle, lines) ==
    lines_loop(ray_begin_x, ray_begin_y, ray_len, ray_angle, lines, 1, None)

RECURSIVE circles_loop(_, _, _, _, _, _, _, _)
circles_loop(ray_begin_x, ray_begin_y, ray_len, ray_angle, circles, accuracy, k, closest) ==
    IF k > Len(circles) THEN Ok(closest)
    ELSE LET intersect_result ==
                 intersection_circle_run(ray_begin_x, ray_begin_y, ray_len, ray_angle,
                                         circles[k][1], circles[k][2], circles[k][3],
                                         accuracy, Zero, MaxCalls)
         IN  IF ~intersect_result.ok THEN intersect_result
             ELSE circles_loop(ray_begin_x, ray_begin_y, ray_len, ray_angle, circles,
                               accuracy, k + 1,
                               choose_closest(closest, intersect_result.val))

intersection_circles(ray_begin_x, ray_begin_y, ray_len, ray_angle, circles, accuracy) ==
    circles_loop(ray_begin_x, ray_begin_y, ray_len, ray_angle, circles, accuracy, 1, None)

intersection(ray_begin_x, ray_begin_y, ray_len, ray_angle, lines, circles, circles_accuracy) ==
    LET intersect_lines_result ==
            intersection_lines(ray_begin_x, ray_begin_y, ray_len, ray_angle, lines)
        intersect_circles_result ==
            intersection_circles(ray_begin_x, ray_begin_y, ray_len, ray_angle, circles,
                                 circles_accuracy)
    IN  IF ~intersect_lines_result.ok THEN intersect_lines_result
        ELSE IF ~intersect_circles_result.ok THEN intersect_circles_result
        ELSE Ok(choose_closest(intersect_lines_result.val, intersect_circles_result.val))

(***************************************************************************)
(* The Ray-Fan Generator: the angle of ray i.                              *)
(***************************************************************************)
angle_offset(view_angle, fov) == FSub(view_angle, FDiv(fov, Lit(2, 1)))

\* the angle of ray k with the rays counted from 1
ray_angle_from_one(view_angle, fov, rays_count, k) ==
    FAdd(FMul(FDiv(FromInt(k + 1), FromInt(rays_count)), fov), angle_offset(view_angle, fov))

ray_angle_of(view_angle, fov, rays_count, k) ==
    FAdd(FMul(FDiv(FromInt(k), FromInt(rays_count)), fov), angle_offset(view_angle, fov))

(***************************************************************************)
(* The calls the model makes.  Every call enters through rays; with        *)
(* rays_count = 1 and fov = 0 it is one call of intersection at            *)
(* view_angle.  Coordinates and lengths are given in the program's units,  *)
(* angles in eighths of a turn.                                            *)
(***************************************************************************)
MaxShapes == 2

Eighth(k) == Lit(k * 7854, 10000)
Seg(x1, y1, x2, y2) == <<Lit(x1, 4), Lit(y1, 4), Lit(x2, 4), Lit(y2, 4)>>
Circ(x4, y4, r4) == <<Lit(x4, 4), Lit(y4, 4), Lit(r4, 4)>>

\* the sequences without repetition of at most n elements of S
ListsOf(S, n) ==
    UNION { { f \in [1..k -> S] : \A a, b \in 1..k : a # b => f[a] # f[b] } : k \in 0..n }

\* coordinates in quarters: (1,3)-(3,1), (0,2)-(4,2), the vertical (3,1)-(3,5),
\* (-3,-1)-(-1,-3), (3,7)-(7,3), (2.5,4)-(4,2.5)
Segments == { Seg(4, 12, 12, 4), Seg(0, 8, 16, 8), Seg(12, 4, 12, 20),
              Seg(-12, -4, -4, -12), Seg(12, 28, 28, 12), Seg(10, 16, 16, 10) }
\* centre and radius in quarters: (4,4) radius 1, (5,0) radius 2,
\* (2,2) radius -1, (16,1.25) radius 0.5
Circles == { Circ(16, 16, 4), Circ(20, 0, 8) }
MarchCircles == { Circ(16, 16, 4), Circ(20, 0, 8), Circ(8, 8, -4), Circ(64, 5, 2) }

Args(va, fov, n, bx, by, rl, ls, cs, acc) ==
    [view_angle |-> va, fov |-> fov, rays_count |-> n,
     ray_begin_x |-> bx, ray_begin_y |-> by, ray_len |-> rl,
     lines |-> ls, circles |-> cs, circles_accuracy |-> acc]

\* one ray against every list of segments and circles
ScanArgs ==
    { Args(Eighth(k), Zero, 1, Zero, Zero, FromInt(10), ls, cs, Lit(1, 2)) :
        k \in {0, 1, 2, 5},
        ls \in ListsOf(Segments, MaxShapes), cs \in ListsOf(Circles, MaxShapes) }

\* one ray against at most one circle, over origins, lengths and accuracies,
\* the invalid ones included
MarchArgs ==
    { Args(Eighth(k), Zero, 1, bx, Zero, rl, <<>>, cs, acc) :
        k \in {0, 1, 2}, bx \in {Zero, FromInt(16)},
        rl \in {FromInt(-1), Zero, FromInt(10), FromInt(16), FromInt(60)},
        cs \in ListsOf(MarchCircles, 1),
        acc \in {Lit(-1, 4), Zero, Lit(1, 4), Lit(1, 2)} }

\* a fan of 0..MaxRays rays over one scene
FanArgs ==
    { Args(Eighth(k), fov, n, Zero, Zero, FromInt(10),
           <<Seg(4, 12, 12, 4)>>, <<Circ(16, 16, 4)>>, Lit(1, 2)) :
        k \in {0, 1, 4}, fov \in {Zero, Lit(1, 4), Eighth(2), Eighth(4)},
        n \in 0..MaxRays }

NoLineCall == [ret |-> Ok(None), stage |-> "none",
               begin_x |-> Zero, begin_y |-> Zero, end_x |-> Zero, end_y |-> Zero,
               ray_x_diff |-> Zero, line_x_diff |-> Zero, ray_tg |-> Zero,
               ray_len |-> Zero,
               x |-> Zero, y |-> Zero, len |-> Zero, cos |-> Zero]
NoCircleCall == [made |-> FALSE, circle |-> <<Zero, Zero, Zero>>, ret |-> Ok(None), calls |-> 0]
NoSel == [made |-> FALSE, first |-> None, second |-> None, result |-> None]
Selected(first, second) ==
    [made |-> TRUE, first |-> first, second |-> second,
     result |-> choose_closest(first, second)]

Init ==
    /\ nanSign \in {0, 1}
    /\ args \in ScanArgs \cup MarchArgs \cup FanArgs
    /\ pc = "rays_loop"
    /\ i = 0
    /\ angle = Zero
    /\ fan = <<>>
    /\ li = 1
    /\ lclosest = None
    /\ ci = 1
    /\ cclosest = None
    /\ mx = Zero
    /\ my = Zero
    /\ mlen = Zero
    /\ calls = 0
    /\ lineCall = NoLineCall
    /\ circleCall = NoCircleCall
    /\ sel = NoSel
    /\ ret = Ok(<<>>)

(***************************************************************************)
(* rays: one iteration of the loop up to the call of intersection, which   *)
(* enters intersection_lines.                                              *)
(***************************************************************************)
RaysIterate ==
    /\ pc = "rays_loop"
    /\ i < args.rays_count
    /\ angle' = ray_angle_of(args.view_angle, args.fov, args.rays_count, i)
    /\ li' = 1
    /\ lclosest' = None
    /\ pc' = "lines_loop"
    /\ UNCHANGED <<nanSign, args, i, fan, ci, cclosest, mx, my, mlen, calls,
                   lineCall, circleCall, sel, ret>>

\* rays: the loop is over, Ok(rays)
RaysReturn ==
    /\ pc = "rays_loop"
    /\ i >= args.rays_count
    /\ ret' = Ok(fan)
    /\ pc' = "done"
    /\ UNCHANGED <<nanSign, args, i, angle, fan, li, lclosest, ci, cclosest,
                   mx, my, mlen, calls, lineCall, circleCall, sel>>

\* intersection_lines: one iteration, a call of intersection_line and of
\* choose_closest; an Err would return through intersection and rays
LinesIterate ==
    /\ pc = "lines_loop"
    /\ li <= Len(args.lines)
    /\ LET l == args.lines[li]
           e == intersection_line_eval(args.ray_begin_x, args.ray_begin_y, args.ray_len,
                                       angle, l[1], l[2], l[3], l[4])
           intersect_result ==
               intersection_line(args.ray_begin_x, args.ray_begin_y, args.ray_len,
                                 angle, l[1], l[2], l[3], l[4])
       IN  /\ lineCall' = [e EXCEPT !.ret = intersect_result]
           /\ IF intersect_result.ok
              THEN /\ lclosest' = choose_closest(lclosest, intersect_result.val)
                   /\ sel' = Selected(lclosest, intersect_result.val)
                   /\ li' = li + 1
                   /\ UNCHANGED <<pc, ret>>
              ELSE /\ ret' = Err
                   /\ pc' = "done"
                   /\ UNCHANGED <<lclosest, sel, li>>
    /\ UNCHANGED <<nanSign, args, i, angle, fan, ci, cclosest, mx, my, mlen, calls,
                   circleCall>>

\* intersection_lines returns Ok(closest); intersection calls intersection_circles
LinesReturn ==
    /\ pc = "lines_loop"
    /\ li > Len(args.lines)
    /\ ci' = 1
    /\ cclosest' = None
    /\ pc' = "circles_loop"
    /\ UNCHANGED <<nanSign, args, i, angle, fan, li, lclosest, mx, my, mlen, calls,
                   lineCall, circleCall, sel, ret>>

\* intersection_circles: one iteration calls intersection_circle with len 0
CirclesIterate ==
    /\ pc = "circles_loop"
    /\ ci <= Len(args.circles)
    /\ mx' = args.ray_begin_x
    /\ my' = args.ray_begin_y
    /\ mlen' = Zero
    /\ calls' = 0
    /\ pc' = "circle"
    /\ UNCHANGED <<nanSign, args, i, angle, fan, li, lclosest, ci, cclosest,
                   lineCall, circleCall, sel, ret>>

Invocation ==
    intersection_circle(mx, my, args.ray_len, angle,
                        args.circles[ci][1], args.circles[ci][2], args.circles[ci][3],
                        args.circles_accuracy, mlen)

\* intersection_circle: an invocation that makes the recursive call
CircleRecurse ==
    /\ pc = "circle"
    /\ calls < MaxCalls
    /\ Invocation.kind = "call"
    /\ mx' = Invocation.x
    /\ my' = Invocation.y
    /\ mlen' = Invocation.len
    /\ calls' = calls + 1
    /\ UNCHANGED <<nanSign, args, pc, i, angle, fan, li, lclosest, ci, cclosest,
                   lineCall, circleCall, sel, ret>>

\* intersection_circle: an invocation that returns, through the recursion,
\* to the loop of intersection_circles, which calls choose_closest
CircleReturn ==
    /\ pc = "circle"
    /\ calls < MaxCalls
    /\ Invocation.kind = "return"
    /\ calls' = calls + 1
    /\ circleCall' = [made |-> TRUE, circle |-> args.circles[ci],
                      ret |-> Invocation.ret, calls |-> calls + 1]
    /\ IF Invocation.ret.ok
       THEN /\ cclosest' = choose_closest(cclosest, Invocation.ret.val)
            /\ sel' = Selected(cclosest, Invocation.ret.val)
            /\ ci' = ci + 1
            /\ pc' = "circles_loop"
            /\ UNCHANGED ret
       ELSE /\ ret' = Err
            /\ pc' = "done"
            /\ UNCHANGED <<cclosest, sel, ci>>
    /\ UNCHANGED <<nanSign, args, i, angle, fan, li, lclosest, mx, my, mlen, lineCall>>

\* intersection_circles returns Ok(closest); intersection merges the two
\* scans with choose_closest and returns; rays pushes the ray
CirclesReturn ==
    /\ pc = "circles_loop"
    /\ ci > Len(args.circles)
    /\ sel' = Selected(lclosest, cclosest)
    /\ fan' = Append(fan, Ray(args.ray_begin_x, args.ray_begin_y, angle,
                              choose_closest(lclosest, cclosest)))
    /\ i' = i + 1
    /\ pc' = "rays_loop"
    /\ UNCHANGED <<nanSign, args, angle, li, lclosest, ci, cclosest, mx, my, mlen, calls,
                   lineCall, circleCall, ret>>

Next ==
    \/ RaysIterate
    \/ RaysReturn
    \/ LinesIterate
    \/ LinesReturn
    \/ CirclesIterate
    \/ CircleRecurse
    \/ CircleReturn
    \/ CirclesReturn

Spec == Init /\ [][Next]_vars

(***************************************************************************)
(* Definitions the properties use.                                         *)
(***************************************************************************)
Present(o) == o.some
BothPresent == sel.made /\ sel.first.some /\ sel.second.some
Finite(a) == IsNum(a)
FPositive(a) == FGt(a, Zero)
AbsDiff(a, b) == IF FLt(a, b) THEN FSub(b, a) ELSE FSub(a, b)
Returned == pc = "done"
RayPushed == pc = "rays_loop" /\ i > 0

\* the orders a sequence of shapes can be given in
Orders(shapes) ==
    { [k \in 1..Len(shapes) |-> shapes[p[k]]] : p \in Permutations(1..Len(shapes)) }

\* an operation whose rounded result is the exact one
ExactDiv(a, b) ==
    /\ IsNum(a) /\ IsNum(b) /\ b.m # 0
    /\ IsNum(FDiv(a, b)) /\ FDiv(a, b).m * b.m = a.m * Scale
ExactMul(a, b) ==
    /\ IsNum(a) /\ IsNum(b)
    /\ IsNum(FMul(a, b)) /\ FMul(a, b).m * Scale = a.m * b.m
ExactAdd(a, b) ==
    /\ IsNum(a) /\ IsNum(b)
    /\ IsNum(FAdd(a, b)) /\ Val(FAdd(a, b)) = Val(a) + Val(b)

\* the angle of ray k (from 0) as the specification writes it
SampledAngle(k) ==
    FAdd(FMul(FDiv(FromInt(k), FromInt(args.rays_count)), args.fov),
         FSub(args.view_angle, FDiv(args.fov, Lit(2, 1))))
HalfFov == FDiv(args.fov, Lit(2, 1))
LeftEdge == FSub(args.view_angle, HalfFov)
RightEdge == FAdd(args.view_angle, HalfFov)
LastFraction == FDiv(FromInt(args.rays_count - 1), FromInt(args.rays_count))
SamplingExact ==
    /\ ExactDiv(args.fov, Lit(2, 1))
    /\ ExactAdd(args.view_angle, FNeg(HalfFov))
    /\ ExactAdd(args.view_angle, HalfFov)
    /\ ExactDiv(FromInt(args.rays_count - 1), FromInt(args.rays_count))
    /\ ExactMul(LastFraction, args.fov)
    /\ ExactAdd(FMul(LastFraction, args.fov), LeftEdge)
FanSampled ==
    /\ ret.ok
    /\ Len(ret.val) = args.rays_count
    /\ \A k \in 1..Len(ret.val) : ret.val[k].angle = SampledAngle(k - 1)
    /\ FEq(ret.val[1].angle, LeftEdge)

\* the arguments the specification calls invalid
InvalidInput ==
    \/ FLt(args.ray_len, Zero)
    \/ \E k \in 1..Len(args.circles) : FLt(args.circles[k][3], Zero)
    \/ FLe(args.circles_accuracy, Zero)
    \/ args.rays_count = 0

\* a segment whose evaluation divides by zero: a vertical segment, a
\* vertical ray, or a ray of slope zero in the division that gives x
ZeroDivisor(e) == IsZero(e.line_x_diff) \/ IsZero(e.ray_x_diff) \/ IsZero(e.ray_tg)
Degenerate(l) ==
    ZeroDivisor(intersection_line_eval(args.ray_begin_x, args.ray_begin_y, args.ray_len,
                                       angle, l[1], l[2], l[3], l[4]))
Sound(l) == ~Degenerate(l)

\* the scalar product, computed exactly, of the ray's vector and the vector
\* from the origin to the computed point; its sign is the sign of the cosine
ExactDot(e) ==
    (Val(e.end_x) - Val(e.begin_x)) * (Val(e.x) - Val(e.begin_x))
        + (Val(e.end_y) - Val(e.begin_y)) * (Val(e.y) - Val(e.begin_y))
CosineDefined(e) ==
    /\ IsNum(e.x) /\ IsNum(e.y) /\ IsNum(e.end_x) /\ IsNum(e.end_y)
    /\ (Val(e.x) # Val(e.begin_x) \/ Val(e.y) # Val(e.begin_y))
    /\ (Val(e.end_x) # Val(e.begin_x) \/ Val(e.end_y) # Val(e.begin_y))

\* the bound of the specification on the invocations of the Circle Refiner
InvocationBound == (args.ray_len.m \div args.circles_accuracy.m) + 2
RefinerPrecondition ==
    /\ FPositive(args.circles_accuracy)
    /\ IsNum(args.ray_len) /\ FLe(Zero, args.ray_len)

(***************************************************************************)
(* C1.  Nearest Selector: None when both arguments are None, the present   *)
(* one when exactly one is present, and when both are present the one with *)
(* the smaller len, the first argument when the two len are equal.         *)
(***************************************************************************)
C1_NearestSelector ==
    sel.made =>
        /\ (~Present(sel.first) /\ ~Present(sel.second)) => ~Present(sel.result)
        /\ (Present(sel.first) /\ ~Present(sel.second)) => sel.result = sel.first
        /\ (~Present(sel.first) /\ Present(sel.second)) => sel.result = sel.second
        /\ (BothPresent /\ FLt(sel.second.len, sel.first.len)) => sel.result = sel.second
        /\ (BothPresent /\ FLt(sel.first.len, sel.second.len)) => sel.result = sel.first
        /\ (BothPresent /\ FEq(sel.first.len, sel.second.len)) => sel.result = sel.first

\* C1 witness: two different hits of equal len were merged, the first was kept
C1_Witness ==
    /\ BothPresent
    /\ FEq(sel.first.len, sel.second.len)
    /\ sel.first # sel.second
    /\ sel.result = sel.first

(***************************************************************************)
(* C2.  The result of intersection is the same for every order of the      *)
(* segments and every order of the circles.                                *)
(***************************************************************************)
C2_OrderIndependent ==
    RayPushed =>
        \A ls \in Orders(args.lines), cs \in Orders(args.circles) :
            intersection(args.ray_begin_x, args.ray_begin_y, args.ray_len, angle,
                         ls, cs, args.circles_accuracy) = Ok(fan[i].intersection)

(***************************************************************************)
(* C3 as stated.  rays with rays_count > 0 returns rays_count rays, ray k   *)
(* at angle k/rays_count * fov + (view_angle - fov/2), the first at         *)
(* view_angle - fov/2 and, for fov > 0, the last strictly below             *)
(* view_angle + fov/2.                                                      *)
(***************************************************************************)
C3_AsStated ==
    (Returned /\ args.rays_count > 0) =>
        /\ FanSampled
        /\ FPositive(args.fov) => FLt(ret.val[Len(ret.val)].angle, RightEdge)

(***************************************************************************)
(* C3 as amended.  The same, with the last ray strictly below               *)
(* view_angle + fov/2 when the operations that compute the two edges and    *)
(* the last angle are exact.                                                *)
(***************************************************************************)
C3_FanSampling ==
    (Returned /\ args.rays_count > 0) =>
        /\ FanSampled
        /\ (FPositive(args.fov) /\ SamplingExact)
               => FLt(ret.val[Len(ret.val)].angle, RightEdge)

\* C3 witness: a fan of several rays over a positive fov, computed exactly
C3_Witness ==
    /\ Returned
    /\ args.rays_count > 1
    /\ FPositive(args.fov)
    /\ SamplingExact
    /\ Len(ret.val) = args.rays_count
    /\ FLt(ret.val[1].angle, ret.val[Len(ret.val)].angle)

(***************************************************************************)
(* C4.  Every Intersection in the returned fan has 0 <= len <= ray_len.    *)
(***************************************************************************)
C4_LenInRange ==
    \A k \in 1..Len(fan) :
        Present(fan[k].intersection) =>
            /\ FLe(Zero, fan[k].intersection.len)
            /\ FLe(fan[k].intersection.len, args.ray_len)

C6_FailureIsNoIntersection ==
    /\ RayPushed =>
           Ok(fan[i].intersection) =
               intersection(args.ray_begin_x, args.ray_begin_y, args.ray_len, angle,
                            SelectSeq(args.lines, Sound), args.circles,
                            args.circles_accuracy)
    /\ Returned => (ret.ok /\ Len(ret.val) = args.rays_count)

(***************************************************************************)
(* C7.  A call with invalid input (negative ray_len, negative radius,      *)
(* non-positive accuracy, rays_count = 0) ends in an error, not a result.  *)
(***************************************************************************)
C7_InvalidInputRejected ==
    (InvalidInput /\ Returned) => ~ret.ok

(***************************************************************************)
(* C8.  intersection_line returns no intersection for degenerate geometry  *)
(* and never an Intersection whose x, y or len is not finite.              *)
(***************************************************************************)
C8_DegenerateIsNone ==
    lineCall.stage # "none" =>
        /\ (IsZero(lineCall.line_x_diff) \/ IsZero(lineCall.ray_x_diff))
               => ~Present(lineCall.ret.val)
        /\ Present(lineCall.ret.val) =>
               (/\ Finite(lineCall.ret.val.x)
                /\ Finite(lineCall.ret.val.y)
                /\ Finite(lineCall.ret.val.len))

(***************************************************************************)
(* C9.  With accuracy > 0 and a finite ray_len >= 0 (the range the data    *)
(* model gives it), starting from len = 0: every invocation of             *)
(* intersection_circle that recurses passes a strictly greater len, and    *)
(* the recursion makes at most floor(ray_len / accuracy) + 2 invocations.  *)
(***************************************************************************)
C9_RefinerTerminates ==
    /\ [](( RefinerPrecondition /\ pc = "circle") => calls + 1 <= InvocationBound)
    /\ [][(RefinerPrecondition /\ pc = "circle" /\ pc' = "circle") => FGt(mlen', mlen)]_vars

(***************************************************************************)
(* C10.  intersection_line returns None whenever the cosine between the    *)
(* ray's vector and the vector from the origin to the computed point is    *)
(* negative or zero.                                                       *)
(***************************************************************************)
C10_NoHitBehind ==
    (lineCall.stage # "none" /\ CosineDefined(lineCall) /\ ExactDot(lineCall) <= 0)
        => ~Present(lineCall.ret.val)

====
